---- MODULE Spec2Model ----
(***************************************************************************)
(* Model of charmed-openstack-upgrader:                                    *)
(*   - cou/steps/plan.py       : generate_plan, create_upgrade_group       *)
(*   - cou/utils/juju_utils.py : _async_get_model, JujuWaiter              *)
(*                               _normalise_action_results                   *)
(*                               async_get_unit_from_name, async_run_action, *)
(*                               async_run_on_unit, async_scp_from_unit      *)
(* Each part has its own specification (SpecPlan, SpecWait, SpecGet,       *)
(* SpecNorm, SpecAction); the variables of the other parts stay at their   *)
(* initial value.                                                          *)
(***************************************************************************)
EXTENDS Integers, Sequences, FiniteSets, TLC

VARIABLES
    \* ---- cou/steps/plan.py
    current_cloud_os_release, \* analysis_result.current_cloud_os_release
    apps,                     \* analysis_result.apps
    planPc,                   \* position inside generate_plan
    target,                   \* local `target` of generate_plan
    plan,                     \* local `plan` of generate_plan (the root)
    group_upgrade_plan,       \* local of the running create_upgrade_group
    cursor,                   \* position of the `for app in filter(...)` iterator
    invoked,                  \* generate_upgrade_plan calls made so far
    planError,                \* exception generate_plan ended with
    returned,                 \* value generate_plan returned
    \* ---- cou/utils/juju_utils.py: JujuWaiter
    now,                      \* datetime.now()
    model,                    \* connection state of self.model
    model_name,               \* self.model_name
    timeout,                  \* self.timeout, seconds
    start_time,               \* self.start_time
    timeout_seconds,          \* argument of the running (or last) wait call
    waitPc,                   \* position inside wait
    waitError,                \* exception the last wait call ended with
    lastOp,                   \* last call or deadline check wait made
    lastPoll,                 \* outcome of the last wait_for_idle
    pollLate,                 \* that wait_for_idle ended after the deadline
    lastConnect,              \* outcome of the last connect_model
    connectTo,                \* model name of the last connect_model call
    callStart,                \* time at which the running wait was called
    calls,                    \* number of wait calls made
    fleet,                    \* "never_idle": no poll finds the fleet idle
    \* ---- cou/utils/juju_utils.py: _async_get_model
    CURRENT_MODEL,            \* the cached Model (0: None)
    handles,                  \* connection state of each Model object created
    handleName,               \* model name each Model object connected to
    flows,                    \* the flows of control that call _async_get_model
    getPc,                    \* per flow: position inside _async_get_model
    getModel,                 \* per flow: local `model` (0: None)
    getName,                  \* per flow: argument model_name
    getFound,                 \* per flow: handle the call found disconnected
    getReturned,              \* per flow: the last call returned (did not raise)
    getValue,                 \* per flow: value the last call returned
    getCalls,                 \* calls of _async_get_model made
    connects,                 \* Model.connect calls made
    opened,                   \* Model.connect calls that succeeded
    disconnects,              \* Model.disconnect calls made
    drops,                    \* connections lost
    \* ---- cou/utils/juju_utils.py: _normalise_action_results
    results,                  \* argument `results` (a dict, or None)
    normPc,                   \* calls of _normalise_action_results made
    normOut,                  \* value the first call returned
    normAgain,                \* value returned for normOut as argument
    \* ---- cou/utils/juju_utils.py: gateway operations on a unit
    unit_name,                \* argument unit_name, a string of characters
    applications,             \* model.applications: name -> entity ids of units
    gwOp,                     \* the gateway function called
    raise_on_failure,         \* argument of async_run_action
    actPc,                    \* position inside the gateway function
    unitApp,                  \* local `app` of async_get_unit_from_name
    unitFound,                \* local `unit`: [app, index in units] (index 0: None)
    actError,                 \* exception the gateway function ended with
    remoteCalls,              \* calls made on units: [unit, call]
    action_status,            \* action_obj.status
    waited,                   \* action_obj.wait() has returned
    outputFetches,            \* model.get_action_output calls made
    lastOutput,               \* outcome of the last get_action_output
    failedOutput,             \* ActionFailed.output
    actReturned               \* value the gateway function returned

planVars == <<current_cloud_os_release, apps, planPc, target, plan,
              group_upgrade_plan, cursor, invoked, planError, returned>>

waitVars == <<now, model, model_name, timeout, start_time, timeout_seconds,
              waitPc, waitError, lastOp, lastPoll, pollLate, lastConnect, connectTo,
              callStart, calls, fleet>>

getVars == <<CURRENT_MODEL, handles, handleName, flows, getPc, getModel,
             getName, getFound, getReturned, getValue, getCalls, connects,
             opened, disconnects, drops>>

normVars == <<results, normPc, normOut, normAgain>>

actVars == <<unit_name, applications, gwOp, raise_on_failure, actPc, unitApp,
             unitFound, actError, remoteCalls, action_status, waited,
             outputFetches, lastOutput, failedOutput, actReturned>>

gwVars == <<normVars, actVars>>

vars == <<planVars, waitVars, getVars, gwVars>>

\* ------------------------------------------------------------------ bounds
MaxApps == 3
\* wait calls made on one JujuWaiter
MaxCalls == 2
\* seconds by which the clock advances in one step
TickStep == 1200
\* calls of _async_get_model
MaxGetCalls == 3

\* longest unit name requested from the gateway
MaxNameLen == 3

\* ------------------------------------------------ cou/steps: UpgradeStep
\* Python's None, in the shape of a step so that it compares with steps.
NoneStep ==
    [none |-> TRUE, description |-> "None", parallel |-> FALSE,
     function |-> "None", sub_steps |-> <<>>, owner |-> 0]

\* UpgradeStep(description=..., parallel=..., function=...); `owner` tags the
\* application that built the step (0: built by generate_plan itself).
UpgradeStep(description, parallel, function, owner) ==
    [none |-> FALSE, description |-> description, parallel |-> parallel,
     function |-> function, sub_steps |-> <<>>, owner |-> owner]

\* UpgradeStep.add_step
add_step(parent, step) ==
    [parent EXCEPT !.sub_steps = Append(@, step)]

\* truth value of `app_upgrade_plan`: None and a step with neither a function
\* nor sub-steps are false.
Truthy(step) ==
    /\ ~step.none
    /\ (step.function # "None" \/ Len(step.sub_steps) > 0)

\* ------------------------------------------------------------ applications
\* What app.generate_upgrade_plan(target) does for one application.
Behaviours == {"step", "empty", "none", "halt", "error"}

Applications == [subordinate : BOOLEAN, behaviour : Behaviours]

SeqsUpTo(S, n) == UNION {[1..k -> S] : k \in 0..n}

\* analysis_result.current_cloud_os_release: None, or a release whose
\* next_release is None, "" or a release name.
Releases ==
    {[isNone |-> TRUE, next_release |-> "None"]}
        \cup [isNone : {FALSE}, next_release : {"None", "", "zed"}]

\* app.generate_upgrade_plan(target) of application number i:
\* [raised: the exception raised or "None", value: the step returned].
generate_upgrade_plan(i, tgt) ==
    LET b == apps[i].behaviour IN
    CASE b = "step"  -> [raised |-> "None",
                         value |-> UpgradeStep("upgrade", FALSE, "upgrade", i)]
      [] b = "empty" -> [raised |-> "None",
                         value |-> UpgradeStep("upgrade", FALSE, "None", i)]
      [] b = "none"  -> [raised |-> "None", value |-> NoneStep]
      [] b = "halt"  -> [raised |-> "HaltUpgradePlanGeneration", value |-> NoneStep]
      [] OTHER       -> [raised |-> "Exception", value |-> NoneStep]

\* ------------------------------------------------------- cou/steps/plan.py
\* getattr(analysis_result.current_cloud_os_release, "next_release", None)
GetNextRelease(release) ==
    IF release.isNone THEN "None" ELSE release.next_release

\* mutant: `target is None` instead of `not target`
NotTarget_IsNone(tgt) == tgt = "None"

\* `not target`
NotTarget(tgt) == tgt \in {"None", ""}

\* mutant: the principal group is built without its filter
filter_function_NoPrincipalFilter(pc, app) ==
    IF pc = "principal" THEN TRUE ELSE app.subordinate

\* mutant: the two lambdas are exchanged
filter_function_Swapped(pc, app) ==
    IF pc = "principal" THEN app.subordinate ELSE ~app.subordinate

\* the two filter functions of generate_plan (lines 51 and 59)
filter_function(pc, app) ==
    IF pc = "principal" THEN ~app.subordinate ELSE app.subordinate

\* next position >= from of an application that passes the filter
\* (Len(apps) + 1 when the iterator is exhausted)
NextMatching(pc, from) ==
    LET S == {i \in from..Len(apps) : filter_function(pc, apps[i])}
    IN  IF S = {} THEN Len(apps) + 1
        ELSE CHOOSE i \in S : \A j \in S : i <= j

\* mutant: every exception is taken for the halt signal
HandleGenerate_SwallowAll(res) ==
    IF res.raised # "None"
    THEN [reraise |-> FALSE, plan |-> NoneStep]
    ELSE [reraise |-> FALSE, plan |-> res.value]

\* mutant: the halt signal is not caught apart from the other exceptions
HandleGenerate_NoHalt(res) ==
    IF res.raised # "None"
    THEN [reraise |-> TRUE, plan |-> NoneStep]
    ELSE [reraise |-> FALSE, plan |-> res.value]

\* what the except clauses of create_upgrade_group make of a call
\* [reraise: the exception propagates, plan: value of app_upgrade_plan]
HandleGenerate(res) ==
    CASE res.raised = "HaltUpgradePlanGeneration" ->
              [reraise |-> FALSE, plan |-> NoneStep]
      [] res.raised # "None" -> [reraise |-> TRUE, plan |-> NoneStep]
      [] OTHER -> [reraise |-> FALSE, plan |-> res.value]

\* mutant: add_step without the `if app_upgrade_plan:` guard
AddIfAny_Always(group, app_upgrade_plan) ==
    add_step(group, app_upgrade_plan)

\* mutant: `if app_upgrade_plan is not None:` instead of the truth value
AddIfAny_NotNone(group, app_upgrade_plan) ==
    IF ~app_upgrade_plan.none THEN add_step(group, app_upgrade_plan) ELSE group

\* `if app_upgrade_plan: group_upgrade_plan.add_step(app_upgrade_plan)`
AddIfAny(group, app_upgrade_plan) ==
    IF Truthy(app_upgrade_plan) THEN add_step(group, app_upgrade_plan) ELSE group

\* generate_plan, lines 38-46: resolve the target, create the root with the
\* backup step, enter create_upgrade_group for the principals.
GeneratePlanBegin ==
    /\ planPc = "start"
    /\ LET tgt == GetNextRelease(current_cloud_os_release) IN
       /\ target' = tgt
       /\ IF NotTarget(tgt)
          THEN /\ planPc' = "raised"
               /\ planError' = "NoTargetError"
               /\ UNCHANGED <<plan, group_upgrade_plan>>
          ELSE /\ planPc' = "principal"
               /\ plan' = add_step(
                      UpgradeStep("Top level plan", FALSE, "None", 0),
                      UpgradeStep("backup mysql databases", FALSE, "backup", 0))
               /\ group_upgrade_plan' =
                      UpgradeStep("Principal(s) upgrade plan", FALSE, "None", 0)
               /\ UNCHANGED planError
    /\ cursor' = 1
    /\ UNCHANGED <<current_cloud_os_release, apps, invoked, returned>>
    /\ UNCHANGED <<waitVars, getVars, gwVars>>

\* one iteration of the loop of create_upgrade_group, lines 86-98
GroupIteration ==
    /\ planPc \in {"principal", "subordinate"}
    /\ LET i == NextMatching(planPc, cursor) IN
       /\ i <= Len(apps)
       /\ LET h == HandleGenerate(generate_upgrade_plan(i, target)) IN
          /\ invoked' = Append(invoked, [app |-> i, target |-> target])
          /\ cursor' = i + 1
          /\ IF h.reraise
             THEN /\ planPc' = "raised"
                  /\ planError' = generate_upgrade_plan(i, target).raised
                  /\ UNCHANGED group_upgrade_plan
             ELSE /\ group_upgrade_plan' = AddIfAny(group_upgrade_plan, h.plan)
                  /\ UNCHANGED <<planPc, planError>>
    /\ UNCHANGED <<current_cloud_os_release, apps, target, plan, returned>>
    /\ UNCHANGED <<waitVars, getVars, gwVars>>

\* the loop ends: create_upgrade_group returns (line 100) and generate_plan
\* attaches the group (lines 53, 61), then starts the next group or returns.
GroupEnd ==
    /\ planPc \in {"principal", "subordinate"}
    /\ NextMatching(planPc, cursor) > Len(apps)
    /\ plan' = add_step(plan, group_upgrade_plan)
    /\ IF planPc = "principal"
       THEN /\ planPc' = "subordinate"
            /\ group_upgrade_plan' =
                   UpgradeStep("Subordinate(s) upgrade plan", FALSE, "None", 0)
            /\ cursor' = 1
            /\ UNCHANGED returned
       ELSE /\ planPc' = "returned"
            /\ returned' = plan'
            /\ UNCHANGED <<group_upgrade_plan, cursor>>
    /\ UNCHANGED <<current_cloud_os_release, apps, target, invoked, planError>>
    /\ UNCHANGED <<waitVars, getVars, gwVars>>

\* JujuWaiter.DEFAULT_TIMEOUT
DEFAULT_TIMEOUT == 3600

\* the flows of control that may call _async_get_model
Flows == {"f1", "f2"}

\* _async_get_model never called: the connection manager's variables at rest
GetAtRest ==
    /\ CURRENT_MODEL = 0
    /\ handles = [h \in 1..MaxGetCalls |-> "unused"]
    /\ handleName = [h \in 1..MaxGetCalls |-> "None"]
    /\ flows = {"f1"}
    /\ getPc = [p \in Flows |-> "idle"]
    /\ getModel = [p \in Flows |-> 0]
    /\ getName = [p \in Flows |-> "None"]
    /\ getFound = [p \in Flows |-> 0]
    /\ getReturned = [p \in Flows |-> FALSE]
    /\ getValue = [p \in Flows |-> 0]
    /\ getCalls = 0
    /\ connects = 0
    /\ opened = 0
    /\ disconnects = 0
    /\ drops = 0

\* no JujuWaiter in use: the waiter's variables at rest
WaitAtRest ==
    /\ now = 0
    /\ model = "none"
    /\ model_name = "m1"
    /\ timeout = DEFAULT_TIMEOUT
    /\ start_time = 0
    /\ timeout_seconds = 0
    /\ waitPc = "init"
    /\ waitError = "None"
    /\ lastOp = "none"
    /\ lastPoll = "none"
    /\ pollLate = FALSE
    /\ lastConnect = "none"
    /\ connectTo = "None"
    /\ callStart = 0
    /\ calls = 0
    /\ fleet = "any"

\* generate_plan not called: the plan builder's variables at rest
PlanAtRest ==
    /\ planPc = "start"
    /\ target = "None"
    /\ plan = NoneStep
    /\ group_upgrade_plan = NoneStep
    /\ cursor = 1
    /\ invoked = <<>>
    /\ planError = "None"
    /\ returned = NoneStep

\* the empty dict
EmptyDict == [k \in {} |-> ""]

\* Python's None where a dict is expected, and a dict
NoneDict == [isNone |-> TRUE, d |-> EmptyDict]

Dict(d) == [isNone |-> FALSE, d |-> d]

\* _normalise_action_results not called
NormAtRest ==
    /\ results = NoneDict
    /\ normPc = "start"
    /\ normOut = EmptyDict
    /\ normAgain = EmptyDict

\* no gateway function called on a unit
ActAtRest ==
    /\ actPc = "start"
    /\ unitApp = <<>>
    /\ unitFound = [app |-> <<>>, index |-> 0]
    /\ actError = "None"
    /\ remoteCalls = <<>>
    /\ action_status = "pending"
    /\ waited = FALSE
    /\ outputFetches = 0
    /\ lastOutput = "none"
    /\ failedOutput = "unset"
    /\ actReturned = "None"

\* no gateway operation called: the gateway's variables at rest
GatewayAtRest ==
    /\ NormAtRest
    /\ unit_name = <<>>
    /\ applications = EmptyDict
    /\ gwOp = "none"
    /\ raise_on_failure = FALSE
    /\ ActAtRest

InitPlan ==
    /\ current_cloud_os_release \in Releases
    /\ apps \in SeqsUpTo(Applications, MaxApps)
    /\ PlanAtRest
    /\ WaitAtRest
    /\ GetAtRest
    /\ GatewayAtRest

NextPlan ==
    \/ GeneratePlanBegin
    \/ GroupIteration
    \/ GroupEnd

SpecPlan == InitPlan /\ [][NextPlan]_vars

\* ===================================== cou/utils/juju_utils.py: JujuWaiter
FatalErrors == {"JujuMachineError", "JujuAgentError", "JujuUnitError", "JujuAppError"}

\* the connection of a Model: "open"; "closed": is_connected() holds and
\* connection().is_open does not; "none": is_connected() does not hold
ConnStates == {"open", "closed", "none"}

ModelNames == {"m1", "m2"}

\* values of timeout_seconds (0: zero or None)
TimeoutChoices == {0, 5, TickStep}

\* _is_model_disconnected
_is_model_disconnected(m) == ~(m # "none" /\ m = "open")

\* mutant: start_time and now exchanged in the subtraction
TimeExceeded_Reversed(n, st, to) == st - n > to

\* mutant: the deadline itself counts as exceeded
TimeExceeded_AtDeadline(n, st, to) == n - st >= to

\* _check_time: datetime.now() - self.start_time > self.timeout
TimeExceeded(n, st, to) == n - st > to

\* wait, lines 459-460: `if timeout_seconds: self.timeout = ...`
NewTimeout(ts, prev) == IF ts # 0 THEN ts ELSE prev

\* mutant: the fatal errors are not re-raised apart from the others
PollHandler_NoFatal(outcome) ==
    IF outcome = "idle" THEN "return" ELSE "retry"

\* mutant: no `except Exception` clause: every exception ends the wait
PollHandler_NoRetry(outcome) ==
    IF outcome = "idle" THEN "return" ELSE "raise"

\* wait, lines 465-487: what the try statement makes of a poll
PollHandler(outcome) ==
    CASE outcome = "idle" -> "return"
      [] outcome \in FatalErrors -> "raise"
      [] OTHER -> "retry"

\* _ensure_model_connected, lines 498-506: what the try statement makes of
\* connect_model: everything but TimeoutException is logged and retried
ConnectHandler(outcome) ==
    IF outcome = "TimeoutException" THEN "raise" ELSE "retry"

PollOutcomes == {"idle", "Exception"} \cup FatalErrors

ConnectOutcomes == {"ok", "Exception"} \cup FatalErrors

Terminal == {"stabilized", "timed_out", "fatal"}

Running == {"ensure", "disconnect", "check_connect", "connect", "poll", "check_poll"}

\* wait, lines 458-461
Wait(ts) ==
    /\ waitPc \in {"init"} \cup Terminal
    /\ calls < MaxCalls
    /\ calls' = calls + 1
    /\ timeout_seconds' = ts
    /\ start_time' = now
    /\ callStart' = now
    /\ timeout' = NewTimeout(ts, timeout)
    /\ waitPc' = "ensure"
    /\ waitError' = "None"
    /\ lastOp' = "none"
    /\ lastPoll' = "none"
    /\ pollLate' = FALSE
    /\ lastConnect' = "none"
    /\ UNCHANGED <<now, model, model_name, connectTo, fleet>>
    /\ UNCHANGED <<planVars, getVars, gwVars>>

\* _ensure_model_connected, line 496: the loop condition
EnsureModelConnected ==
    /\ waitPc = "ensure"
    /\ waitPc' = IF _is_model_disconnected(model) THEN "disconnect" ELSE "poll"
    /\ UNCHANGED <<now, model, model_name, timeout, start_time, timeout_seconds,
                   waitError, lastOp, lastPoll, pollLate, lastConnect, connectTo, callStart, calls, fleet>>
    /\ UNCHANGED <<planVars, getVars, gwVars>>

\* _ensure_model_connected, line 497: _disconnect(self.model), lines 112-116;
\* a failing disconnect leaves the connection as it was
Disconnect ==
    /\ waitPc = "disconnect"
    /\ model' \in {"none", model}
    /\ lastOp' = "disconnect"
    /\ waitPc' = "check_connect"
    /\ UNCHANGED <<now, model_name, timeout, start_time, timeout_seconds,
                   waitError, lastPoll, pollLate, lastConnect, connectTo, callStart, calls, fleet>>
    /\ UNCHANGED <<planVars, getVars, gwVars>>

\* _check_time, lines 513-517, called from _ensure_model_connected (line 499)
\* and from wait (line 489)
CheckTime(site, next) ==
    /\ waitPc = site
    /\ lastOp' = site
    /\ IF TimeExceeded(now, start_time, timeout)
       THEN /\ waitPc' = "timed_out"
            /\ waitError' = "TimeoutException"
       ELSE /\ waitPc' = next
            /\ UNCHANGED waitError
    /\ UNCHANGED <<now, model, model_name, timeout, start_time, timeout_seconds,
                   lastPoll, pollLate, lastConnect, connectTo, callStart, calls, fleet>>
    /\ UNCHANGED <<planVars, getVars, gwVars>>

\* mutant: the reconnect loop does not check the deadline
CheckTimeBeforeConnect_Skipped ==
    /\ waitPc = "check_connect"
    /\ waitPc' = "connect"
    /\ lastOp' = "check_connect"
    /\ UNCHANGED <<now, model, model_name, timeout, start_time, timeout_seconds,
                   waitError, lastPoll, pollLate, lastConnect, connectTo, callStart, calls, fleet>>
    /\ UNCHANGED <<planVars, getVars, gwVars>>

CheckTimeBeforeConnect == CheckTime("check_connect", "connect")

CheckTimeAfterPoll == CheckTime("check_poll", "ensure")

\* mutant: connect_model() without a name connects to the model in focus
ConnectTarget_NoName == "None"

\* line 500: the argument of connect_model, self.model_name
ConnectTarget == model_name

\* _ensure_model_connected, lines 500-506: connect_model(self.model_name)
ConnectModel(outcome) ==
    /\ waitPc = "connect"
    /\ lastOp' = "connect"
    /\ lastConnect' = outcome
    /\ connectTo' = ConnectTarget
    /\ model' = IF outcome = "ok" THEN "open" ELSE model
    /\ IF ConnectHandler(outcome) = "raise"
       THEN /\ waitPc' = IF outcome = "TimeoutException" THEN "timed_out" ELSE "fatal"
            /\ waitError' = outcome
       ELSE /\ waitPc' = "ensure"
            /\ UNCHANGED waitError
    /\ UNCHANGED <<now, model_name, timeout, start_time, timeout_seconds,
                   lastPoll, pollLate, callStart, calls, fleet>>
    /\ UNCHANGED <<planVars, getVars, gwVars>>

\* mutant: _check_time() is called after every poll, the successful one too
WaitForIdle_CheckedReturn(outcome) ==
    /\ waitPc = "poll"
    /\ outcome = "idle" => (model = "open" /\ fleet # "never_idle")
    /\ outcome \in FatalErrors => fleet # "never_idle"
    /\ lastOp' = "poll"
    /\ lastPoll' = outcome
    /\ pollLate' = (now - start_time > timeout)
    /\ LET h == PollHandler(outcome) IN
       IF h = "return" /\ TimeExceeded(now, start_time, timeout)
       THEN /\ waitPc' = "timed_out"
            /\ waitError' = "TimeoutException"
       ELSE /\ waitPc' = CASE h = "return" -> "stabilized"
                           [] h = "raise" -> "fatal"
                           [] OTHER -> "check_poll"
            /\ waitError' = IF h = "raise" THEN outcome ELSE waitError
    /\ UNCHANGED <<now, model, model_name, timeout, start_time, timeout_seconds,
                   lastConnect, connectTo, callStart, calls, fleet>>
    /\ UNCHANGED <<planVars, getVars, gwVars>>

\* wait, lines 465-487: one wait_for_idle and its except clauses; the fleet
\* is found idle only over an open connection
WaitForIdle(outcome) ==
    /\ waitPc = "poll"
    /\ outcome = "idle" => (model = "open" /\ fleet # "never_idle")
    /\ outcome \in FatalErrors => fleet # "never_idle"
    /\ lastOp' = "poll"
    /\ lastPoll' = outcome
    /\ pollLate' = (now - start_time > timeout)
    /\ LET h == PollHandler(outcome) IN
       /\ waitPc' = CASE h = "return" -> "stabilized"
                      [] h = "raise" -> "fatal"
                      [] OTHER -> "check_poll"
       /\ waitError' = IF h = "raise" THEN outcome ELSE waitError
    /\ UNCHANGED <<now, model, model_name, timeout, start_time, timeout_seconds,
                   lastConnect, connectTo, callStart, calls, fleet>>
    /\ UNCHANGED <<planVars, getVars, gwVars>>

\* the clock advances; it is followed until the deadline of the last wait
\* call (or of the constructor) has passed
Tick ==
    /\ now - start_time <= timeout
    /\ now' = now + TickStep
    /\ UNCHANGED <<model, model_name, timeout, start_time, timeout_seconds,
                   waitPc, waitError, lastOp, lastPoll, pollLate, lastConnect, connectTo, callStart,
                   calls, fleet>>
    /\ UNCHANGED <<planVars, getVars, gwVars>>

\* the connection to the controller is lost
ConnectionDrop ==
    /\ model = "open"
    /\ model' \in {"closed", "none"}
    /\ UNCHANGED <<now, model_name, timeout, start_time, timeout_seconds,
                   waitPc, waitError, lastOp, lastPoll, pollLate, lastConnect, connectTo, callStart,
                   calls, fleet>>
    /\ UNCHANGED <<planVars, getVars, gwVars>>

\* JujuWaiter.__init__, lines 440-443, at time 0
InitWait ==
    /\ now = 0
    /\ model \in ConnStates
    /\ model_name \in ModelNames
    /\ timeout = DEFAULT_TIMEOUT
    /\ start_time = 0
    /\ timeout_seconds = 0
    /\ waitPc = "init"
    /\ waitError = "None"
    /\ lastOp = "none"
    /\ lastPoll = "none"
    /\ pollLate = FALSE
    /\ lastConnect = "none"
    /\ connectTo = "None"
    /\ callStart = 0
    /\ calls = 0
    /\ fleet \in {"any", "never_idle"}
    /\ current_cloud_os_release = [isNone |-> TRUE, next_release |-> "None"]
    /\ apps = <<>>
    /\ PlanAtRest
    /\ GetAtRest
    /\ GatewayAtRest

WaitStep ==
    \/ EnsureModelConnected
    \/ Disconnect
    \/ CheckTimeBeforeConnect
    \/ \E outcome \in ConnectOutcomes : ConnectModel(outcome)
    \/ \E outcome \in PollOutcomes : WaitForIdle(outcome)
    \/ CheckTimeAfterPoll

NextWait ==
    \/ \E ts \in TimeoutChoices : Wait(ts)
    \/ WaitStep
    \/ Tick
    \/ ConnectionDrop

SpecWait == InitWait /\ [][NextWait]_vars

\* the event loop keeps running the wait call and the clock keeps advancing
FairSpecWait == SpecWait /\ WF_vars(WaitStep) /\ WF_vars(Tick)

\* ================================ cou/utils/juju_utils.py: _async_get_model
\* the Model objects created so far are 1..Created
Created == Cardinality({h \in 1..MaxGetCalls : handles[h] # "unused"})

\* mutant: a cached handle is reused only for the model it is connected to
NeedsConnect_OtherName(cur, name) ==
    cur = 0 \/ handleName[cur] # name

\* line 98: `if CURRENT_MODEL is None`
NeedsConnect(cur, name) == cur = 0

\* lines 98-102, from the test of line 98 to the next await (connect) or to
\* the return, with the local `model` holding m
GetModelContinue(p, m, name) ==
    IF NeedsConnect(CURRENT_MODEL, name)
    THEN /\ handles' = [handles EXCEPT ![Created + 1] = "none"]
         /\ getModel' = [getModel EXCEPT ![p] = Created + 1]
         /\ getPc' = [getPc EXCEPT ![p] = "connect"]
         /\ getReturned' = [getReturned EXCEPT ![p] = FALSE]
         /\ UNCHANGED getValue
    ELSE /\ getModel' = [getModel EXCEPT ![p] = m]
         /\ getPc' = [getPc EXCEPT ![p] = "idle"]
         /\ getReturned' = [getReturned EXCEPT ![p] = TRUE]
         /\ getValue' = [getValue EXCEPT ![p] = m]
         /\ UNCHANGED handles

\* _async_get_model, lines 94-99: up to the first await
GetModelEnter(p, name) ==
    /\ p \in flows
    /\ getPc[p] = "idle"
    /\ getCalls < MaxGetCalls
    /\ getCalls' = getCalls + 1
    /\ getName' = [getName EXCEPT ![p] = name]
    /\ IF CURRENT_MODEL # 0 /\ _is_model_disconnected(handles[CURRENT_MODEL])
       THEN /\ getModel' = [getModel EXCEPT ![p] = CURRENT_MODEL]
            /\ getFound' = [getFound EXCEPT ![p] = CURRENT_MODEL]
            /\ getPc' = [getPc EXCEPT ![p] = "disconnect"]
            /\ getReturned' = [getReturned EXCEPT ![p] = FALSE]
            /\ UNCHANGED <<handles, getValue>>
       ELSE /\ getFound' = [getFound EXCEPT ![p] = 0]
            /\ GetModelContinue(p, CURRENT_MODEL, name)
    /\ UNCHANGED <<CURRENT_MODEL, handleName, flows, connects, opened,
                   disconnects, drops>>
    /\ UNCHANGED <<planVars, waitVars, gwVars>>

\* lines 96-99: _disconnect(model) (lines 112-116) has ended, with its errors
\* swallowed; `model = None`; then on to line 98
GetModelDisconnected(p, failed) ==
    /\ getPc[p] = "disconnect"
    /\ disconnects' = disconnects + 1
    /\ IF NeedsConnect(CURRENT_MODEL, getName[p])
       THEN /\ handles' = [handles EXCEPT
                   ![getModel[p]] = IF failed THEN @ ELSE "none",
                   ![Created + 1] = "none"]
            /\ getModel' = [getModel EXCEPT ![p] = Created + 1]
            /\ getPc' = [getPc EXCEPT ![p] = "connect"]
            /\ UNCHANGED <<getReturned, getValue>>
       ELSE /\ handles' = [handles EXCEPT
                   ![getModel[p]] = IF failed THEN @ ELSE "none"]
            /\ getModel' = [getModel EXCEPT ![p] = 0]
            /\ getPc' = [getPc EXCEPT ![p] = "idle"]
            /\ getReturned' = [getReturned EXCEPT ![p] = TRUE]
            /\ getValue' = [getValue EXCEPT ![p] = 0]
    /\ UNCHANGED <<CURRENT_MODEL, handleName, flows, getName, getFound,
                   getCalls, connects, opened, drops>>
    /\ UNCHANGED <<planVars, waitVars, gwVars>>

\* mutant: the cache is tested again after the await of connect, and a flow
\* that finds it filled closes its own connection and returns the cached one
GetModelConnected_Recheck(p, ok) ==
    /\ getPc[p] = "connect"
    /\ connects' = connects + 1
    /\ getPc' = [getPc EXCEPT ![p] = "idle"]
    /\ IF ok /\ CURRENT_MODEL = 0
       THEN /\ handles' = [handles EXCEPT ![getModel[p]] = "open"]
            /\ handleName' = [handleName EXCEPT ![getModel[p]] = getName[p]]
            /\ opened' = opened + 1
            /\ CURRENT_MODEL' = getModel[p]
            /\ getReturned' = [getReturned EXCEPT ![p] = TRUE]
            /\ getValue' = [getValue EXCEPT ![p] = getModel[p]]
            /\ UNCHANGED disconnects
       ELSE /\ getReturned' = [getReturned EXCEPT ![p] = ok]
            /\ getValue' = [getValue EXCEPT ![p] = IF ok THEN CURRENT_MODEL ELSE @]
            /\ disconnects' = IF ok THEN disconnects + 1 ELSE disconnects
            /\ opened' = IF ok THEN opened + 1 ELSE opened
            /\ UNCHANGED <<handles, handleName, CURRENT_MODEL>>
    /\ UNCHANGED <<flows, getModel, getName, getFound, getCalls, drops>>
    /\ UNCHANGED <<planVars, waitVars, gwVars>>

\* lines 100-102: model.connect(model_name) has ended
GetModelConnected(p, ok) ==
    /\ getPc[p] = "connect"
    /\ connects' = connects + 1
    /\ getPc' = [getPc EXCEPT ![p] = "idle"]
    /\ IF ok
       THEN /\ handles' = [handles EXCEPT ![getModel[p]] = "open"]
            /\ handleName' = [handleName EXCEPT ![getModel[p]] = getName[p]]
            /\ opened' = opened + 1
            /\ CURRENT_MODEL' = getModel[p]
            /\ getReturned' = [getReturned EXCEPT ![p] = TRUE]
            /\ getValue' = [getValue EXCEPT ![p] = getModel[p]]
       ELSE /\ getReturned' = [getReturned EXCEPT ![p] = FALSE]
            /\ UNCHANGED <<handles, handleName, opened, CURRENT_MODEL, getValue>>
    /\ UNCHANGED <<flows, getModel, getName, getFound, getCalls, disconnects,
                   drops>>
    /\ UNCHANGED <<planVars, waitVars, gwVars>>

\* the connection of a Model object is lost
HandleDrop(h) ==
    /\ handles[h] = "open"
    /\ \E st \in {"closed", "none"} : handles' = [handles EXCEPT ![h] = st]
    /\ drops' = drops + 1
    /\ UNCHANGED <<CURRENT_MODEL, handleName, flows, getPc, getModel, getName,
                   getFound, getReturned, getValue, getCalls, connects, opened,
                   disconnects>>
    /\ UNCHANGED <<planVars, waitVars, gwVars>>

\* module import, lines 31-32; one or two flows of control
InitGet ==
    /\ CURRENT_MODEL = 0
    /\ handles = [h \in 1..MaxGetCalls |-> "unused"]
    /\ handleName = [h \in 1..MaxGetCalls |-> "None"]
    /\ flows \in {{"f1"}, Flows}
    /\ getPc = [p \in Flows |-> "idle"]
    /\ getModel = [p \in Flows |-> 0]
    /\ getName = [p \in Flows |-> "None"]
    /\ getFound = [p \in Flows |-> 0]
    /\ getReturned = [p \in Flows |-> FALSE]
    /\ getValue = [p \in Flows |-> 0]
    /\ getCalls = 0
    /\ connects = 0
    /\ opened = 0
    /\ disconnects = 0
    /\ drops = 0
    /\ current_cloud_os_release = [isNone |-> TRUE, next_release |-> "None"]
    /\ apps = <<>>
    /\ PlanAtRest
    /\ WaitAtRest
    /\ GatewayAtRest

NextGet ==
    \/ \E p \in Flows, name \in ModelNames \cup {"None"} : GetModelEnter(p, name)
    \/ \E p \in Flows, failed \in BOOLEAN : GetModelDisconnected(p, failed)
    \/ \E p \in Flows, ok \in BOOLEAN : GetModelConnected(p, ok)
    \/ \E h \in 1..MaxGetCalls : HandleDrop(h)

SpecGet == InitGet /\ [][NextGet]_vars

\* ====================== cou/utils/juju_utils.py: _normalise_action_results
\* the keys of the stream outputs, in the order of the loop of line 177
StreamKeys == <<"Stderr", "Stdout", "stderr", "stdout">>

\* the keys a raw result may hold
ResultKeys == {"Stderr", "Stdout", "stderr", "stdout", "Code"}

\* the values a raw result may hold
ResultValues == {"", "a", "b"}

\* the dicts over ResultKeys
RawDicts == UNION {[S -> ResultValues] : S \in SUBSET ResultKeys}

\* dict.get(key, default)
Get(d, key, default) == IF key \in DOMAIN d THEN d[key] ELSE default

\* d[key] = value
Put(d, key, value) ==
    [k \in DOMAIN d \cup {key} |-> IF k = key THEN value ELSE d[k]]

\* truth value of `results.get(key)`: None and "" are false
HasValue(d, key) == Get(d, key, "None") \notin {"None", ""}

\* str.capitalize for the two lowercase keys
Capitalize(key) == IF key = "stderr" THEN "Stderr" ELSE "Stdout"

\* lines 177-178: `for key in [...]: results[key] = results.get(key, "")`
RECURSIVE SetDefaults(_, _)
SetDefaults(d, keys) ==
    IF keys = <<>> THEN d
    ELSE SetDefaults(Put(d, Head(keys), Get(d, Head(keys), "")), Tail(keys))

\* lines 184-188: the body of the loop over the lowercase keys
CrossPopulateOne(d, key) ==
    IF HasValue(d, key) /\ ~HasValue(d, Capitalize(key))
    THEN Put(d, Capitalize(key), d[key])
    ELSE IF HasValue(d, Capitalize(key)) /\ ~HasValue(d, key)
    THEN Put(d, key, d[Capitalize(key)])
    ELSE d

\* lines 183-188: `for key in ["stderr", "stdout"]`
RECURSIVE CrossPopulate(_, _)
CrossPopulate(d, keys) ==
    IF keys = <<>> THEN d
    ELSE CrossPopulate(CrossPopulateOne(d, Head(keys)), Tail(keys))

\* truth value of `results`: None and the empty dict are false
ResultsTruthy(r) == ~r.isNone /\ DOMAIN r.d # {}

\* _normalise_action_results(results), lines 173-190
_normalise_action_results(r) ==
    IF ResultsTruthy(r)
    THEN CrossPopulate(SetDefaults(r.d, StreamKeys), <<"stderr", "stdout">>)
    ELSE EmptyDict

\* _normalise_action_results is called with `results`
Normalise ==
    /\ normPc = "start"
    /\ normOut' = _normalise_action_results(results)
    /\ normPc' = "once"
    /\ UNCHANGED <<results, normAgain>>
    /\ UNCHANGED <<planVars, waitVars, getVars, actVars>>

\* _normalise_action_results is called with the record it returned
NormaliseAgain ==
    /\ normPc = "once"
    /\ normAgain' = _normalise_action_results(Dict(normOut))
    /\ normPc' = "twice"
    /\ UNCHANGED <<results, normOut>>
    /\ UNCHANGED <<planVars, waitVars, getVars, actVars>>

\* `results` is action.data.get("results") (line 233): None or any dict
InitNorm ==
    /\ results \in {NoneDict} \cup {Dict(d) : d \in RawDicts}
    /\ normPc = "start"
    /\ normOut = EmptyDict
    /\ normAgain = EmptyDict
    /\ unit_name = <<>>
    /\ applications = EmptyDict
    /\ gwOp = "none"
    /\ raise_on_failure = FALSE
    /\ ActAtRest
    /\ current_cloud_os_release = [isNone |-> TRUE, next_release |-> "None"]
    /\ apps = <<>>
    /\ PlanAtRest
    /\ WaitAtRest
    /\ GetAtRest

NextNorm ==
    \/ Normalise
    \/ NormaliseAgain

SpecNorm == InitNorm /\ [][NextNorm]_vars

\* ================= cou/utils/juju_utils.py: gateway operations on a unit
\* The functions are modelled from the point where _async_get_model has
\* returned a connected Model; remote calls end without a transport error.
\* the characters of the names
NameChars == {"a", "b", "/", "0"}

\* the unit names a caller may pass
UnitNames == SeqsUpTo(NameChars, MaxNameLen)

\* the units an application may have, by entity_id, in list order
UnitChoices(name) ==
    {<<>>,
     <<name \o <<"/", "0">>>>,
     <<name \o <<"/", "b">>, name \o <<"/", "0">>>>}

\* the states of model.applications: applications a and b, each absent or
\* present with some units
ModelApplications ==
    UNION {{f \in [S -> UNION {UnitChoices(n) : n \in S}] :
                \A n \in S : f[n] \in UnitChoices(n)} :
           S \in SUBSET {<<"a">>, <<"b">>}}

\* the gateway functions that resolve a unit, with the remote call each makes
GatewayOps == {"run_action", "run_on_unit", "scp_from_unit"}

\* the terminal states of an action
ActionStatuses == {"completed", "failed", "cancelled"}

\* mutant: the part of the name before the last "/"
RECURSIVE SplitFirst_Last(_)
SplitFirst_Last(s) ==
    IF s = <<>> THEN <<>>
    ELSE IF s[Len(s)] = "/" THEN SubSeq(s, 1, Len(s) - 1)
    ELSE IF \A k \in 1..Len(s) : s[k] # "/" THEN s
    ELSE SplitFirst_Last(SubSeq(s, 1, Len(s) - 1))

\* line 252: unit_name.split("/")[0]
RECURSIVE SplitFirst(_)
SplitFirst(s) ==
    IF s = <<>> \/ Head(s) = "/" THEN <<>>
    ELSE <<Head(s)>> \o SplitFirst(Tail(s))

\* mutant: the first unit of the application is taken
FindUnit_FirstOfApp(units, name, k) ==
    IF k > Len(units) THEN 0 ELSE k

\* lines 261-266: the for/else loop from position k on; the position of the
\* first unit whose entity_id is the name, 0 when the loop runs to its end
RECURSIVE FindUnit(_, _, _)
FindUnit(units, name, k) ==
    IF k > Len(units) THEN 0
    ELSE IF units[k] = name THEN k
    ELSE FindUnit(units, name, k + 1)

\* mutant: a failed action raises whatever the caller asked
NeedsRaise_IgnoresFlag(flag, status) == status # "completed"

\* line 205: `raise_on_failure and action_obj.status != "completed"`
NeedsRaise(flag, status) == flag /\ status # "completed"

\* mutant: a missing output is reported as an empty output
OutputOrNone_Empty(outcome) == IF outcome = "KeyError" THEN "" ELSE "output"

\* lines 206-209: the output, None on KeyError
OutputOrNone(outcome) == IF outcome = "KeyError" THEN "None" ELSE "output"

\* async_get_unit_from_name, lines 252-268, called by the gateway function
\* with the model it got
ResolveUnit ==
    /\ gwOp \in GatewayOps
    /\ actPc = "start"
    /\ unitApp' = SplitFirst(unit_name)
    /\ IF SplitFirst(unit_name) \notin DOMAIN applications
       THEN /\ actPc' = "raised"
            /\ actError' = "UnitNotFound"
            /\ UNCHANGED unitFound
       ELSE LET k == FindUnit(applications[SplitFirst(unit_name)], unit_name, 1) IN
            IF k = 0
            THEN /\ actPc' = "raised"
                 /\ actError' = "UnitNotFound"
                 /\ UNCHANGED unitFound
            ELSE /\ actPc' = "resolved"
                 /\ unitFound' = [app |-> SplitFirst(unit_name), index |-> k]
                 /\ UNCHANGED actError
    /\ UNCHANGED <<unit_name, applications, gwOp, raise_on_failure, remoteCalls,
                   action_status, waited, outputFetches, lastOutput,
                   failedOutput, actReturned>>
    /\ UNCHANGED <<planVars, waitVars, getVars, normVars>>

\* the remote call on the unit: unit.run_action (line 315), unit.run
\* (line 232, followed by the normalisation of line 234), unit.scp_from
\* (line 349)
RemoteCall ==
    /\ actPc = "resolved"
    /\ remoteCalls' = Append(remoteCalls, [unit |-> unitFound, call |-> gwOp])
    /\ IF gwOp = "run_action"
       THEN /\ actPc' = "wait"
            /\ UNCHANGED actReturned
       ELSE /\ actPc' = "returned"
            /\ actReturned' = IF gwOp = "run_on_unit" THEN "results" ELSE "None"
    /\ UNCHANGED <<unit_name, applications, gwOp, raise_on_failure, unitApp,
                   unitFound, actError, action_status, waited, outputFetches,
                   lastOutput, failedOutput>>
    /\ UNCHANGED <<planVars, waitVars, getVars, normVars>>

\* _check_action_error, lines 204-205, and the return of line 317:
\* action_obj.wait() returns with the action in a terminal state
ActionWait(status) ==
    /\ actPc = "wait"
    /\ waited' = TRUE
    /\ action_status' = status
    /\ IF NeedsRaise(raise_on_failure, status)
       THEN /\ actPc' = "output"
            /\ UNCHANGED actReturned
       ELSE /\ actPc' = "returned"
            /\ actReturned' = "action_obj"
    /\ UNCHANGED <<unit_name, applications, gwOp, raise_on_failure, unitApp,
                   unitFound, actError, remoteCalls, outputFetches, lastOutput,
                   failedOutput>>
    /\ UNCHANGED <<planVars, waitVars, getVars, normVars>>

\* _check_action_error, lines 206-211: get_action_output, then ActionFailed
GetActionOutput(outcome) ==
    /\ actPc = "output"
    /\ outputFetches' = outputFetches + 1
    /\ lastOutput' = outcome
    /\ failedOutput' = OutputOrNone(outcome)
    /\ actError' = "ActionFailed"
    /\ actPc' = "raised"
    /\ UNCHANGED <<unit_name, applications, gwOp, raise_on_failure, unitApp,
                   unitFound, remoteCalls, action_status, waited, actReturned>>
    /\ UNCHANGED <<planVars, waitVars, getVars, normVars>>

\* a gateway function is called with a unit name on a model
InitAction ==
    /\ unit_name \in UnitNames
    /\ applications \in ModelApplications
    /\ gwOp \in GatewayOps
    /\ raise_on_failure \in IF gwOp = "run_action" THEN BOOLEAN ELSE {FALSE}
    /\ ActAtRest
    /\ NormAtRest
    /\ current_cloud_os_release = [isNone |-> TRUE, next_release |-> "None"]
    /\ apps = <<>>
    /\ PlanAtRest
    /\ WaitAtRest
    /\ GetAtRest

NextAction ==
    \/ ResolveUnit
    \/ RemoteCall
    \/ \E status \in ActionStatuses : ActionWait(status)
    \/ \E outcome \in {"output", "KeyError"} : GetActionOutput(outcome)

SpecAction == InitAction /\ [][NextAction]_vars

\* ===================================================== claims: plan builder
Owners(node) == [k \in 1..Len(node.sub_steps) |-> node.sub_steps[k].owner]

\* the owners of the children of a node, those of steps with neither a
\* function nor sub-steps left out
StepOwners(node) ==
    SelectSeq(Owners(node), LAMBDA i : apps[i].behaviour # "empty")

InvokedApps == {invoked[k].app : k \in 1..Len(invoked)}

\* C1: a generate_plan call that returns yields a non-parallel root with
\* exactly three children, in order the backup step, the principal group and
\* the subordinate group; the children of the second node are steps of
\* principal applications only, those of the third node steps of subordinate
\* applications only, and every step an application contributed is in the
\* node of its variant.
C1_RootShape ==
    planPc = "returned" =>
        /\ ~returned.none
        /\ ~returned.parallel
        /\ returned.function = "None"
        /\ Len(returned.sub_steps) = 3
        /\ returned.sub_steps[1].function = "backup"
        /\ returned.sub_steps[1].sub_steps = <<>>
        /\ returned.sub_steps[2].description = "Principal(s) upgrade plan"
        /\ returned.sub_steps[3].description = "Subordinate(s) upgrade plan"
        /\ \A k \in 1..Len(returned.sub_steps[2].sub_steps) :
               LET o == returned.sub_steps[2].sub_steps[k].owner IN
               o \in 1..Len(apps) /\ ~apps[o].subordinate
        /\ \A k \in 1..Len(returned.sub_steps[3].sub_steps) :
               LET o == returned.sub_steps[3].sub_steps[k].owner IN
               o \in 1..Len(apps) /\ apps[o].subordinate
        /\ \A i \in 1..Len(apps) :
               apps[i].behaviour = "step" =>
                   \E k \in 1..Len(returned.sub_steps[IF apps[i].subordinate THEN 3 ELSE 2].sub_steps) :
                       returned.sub_steps[IF apps[i].subordinate THEN 3 ELSE 2].sub_steps[k].owner = i

C1_Witness ==
    /\ planPc = "returned"
    /\ Len(returned.sub_steps[2].sub_steps) >= 1
    /\ Len(returned.sub_steps[3].sub_steps) >= 1
    /\ \E i \in 1..Len(apps) : apps[i].behaviour \in {"none", "halt"}

\* C2: when an application's generate_upgrade_plan raised an error other than
\* the halt signal, generate_plan has ended with that error and without a
\* plan, and that application is the last one invoked: none after it in its
\* group and none of a later group.
C2_ErrorAborts ==
    \A k \in 1..Len(invoked) :
        apps[invoked[k].app].behaviour = "error" =>
            /\ planPc = "raised"
            /\ planError = generate_upgrade_plan(invoked[k].app, invoked[k].target).raised
            /\ planError \notin {"None", "HaltUpgradePlanGeneration", "NoTargetError"}
            /\ returned = NoneStep
            /\ k = Len(invoked)

C2_Witness ==
    /\ planPc = "raised"
    /\ planError = "Exception"
    /\ Len(invoked) >= 2
    /\ \E i \in 1..Len(apps) : i \notin InvokedApps
    /\ ~apps[invoked[Len(invoked)].app].subordinate

\* the applications invoked so far by the running group, in order
InvokedOfGroup(sub) ==
    SelectSeq([k \in 1..Len(invoked) |-> invoked[k].app],
              LAMBDA i : apps[i].subordinate = sub)

\* the steps these applications returned that count as a step
ContributedBy(sub) ==
    SelectSeq(InvokedOfGroup(sub), LAMBDA i : apps[i].behaviour = "step")

\* C3: once an application raised the halt signal, the call has not failed
\* because of it, the halting application has no child in its group, the
\* children of the group are the steps of the other invoked applications in
\* invocation order (earlier ones unchanged, later ones appended), and a call
\* that returns has invoked every application after the halting one.
C3_HaltSkipsOnlyItself ==
    \A k \in 1..Len(invoked) :
        apps[invoked[k].app].behaviour = "halt" =>
            /\ planPc = "raised" =>
                   /\ k < Len(invoked)
                   /\ apps[invoked[Len(invoked)].app].behaviour = "error"
            /\ planPc \in {"principal", "subordinate"} =>
                   /\ StepOwners(group_upgrade_plan) =
                          ContributedBy(planPc = "subordinate")
                   /\ \A j \in 1..Len(Owners(group_upgrade_plan)) :
                          Owners(group_upgrade_plan)[j] # invoked[k].app
            /\ planPc = "returned" =>
                   /\ StepOwners(returned.sub_steps[2]) = ContributedBy(FALSE)
                   /\ StepOwners(returned.sub_steps[3]) = ContributedBy(TRUE)
                   /\ \A i \in 1..Len(apps) : i \in InvokedApps
                   /\ \A a, b \in 1..Len(invoked) :
                          (a < b /\ apps[invoked[a].app].subordinate
                                      = apps[invoked[b].app].subordinate)
                              => invoked[a].app < invoked[b].app

C3_Witness ==
    /\ planPc = "returned"
    /\ \E h, j \in 1..Len(apps) :
           /\ h < j
           /\ apps[h].behaviour = "halt"
           /\ apps[j].behaviour = "step"
           /\ apps[h].subordinate = apps[j].subordinate
           /\ \E e \in 1..h - 1 :
                  /\ apps[e].behaviour = "step"
                  /\ apps[e].subordinate = apps[h].subordinate

\* C4: for an Analysis whose current release is absent or has no or an empty
\* next_release, generate_plan, once started, has failed with NoTargetError
\* with no step created and no generate_upgrade_plan invoked.
C4_NoTarget ==
    (/\ planPc # "start"
     /\ \/ current_cloud_os_release.isNone
        \/ current_cloud_os_release.next_release \in {"None", ""})
        => /\ planPc = "raised"
           /\ planError = "NoTargetError"
           /\ invoked = <<>>
           /\ plan = NoneStep
           /\ group_upgrade_plan = NoneStep
           /\ returned = NoneStep

C4_Witness ==
    /\ planPc = "raised"
    /\ planError = "NoTargetError"
    /\ ~current_cloud_os_release.isNone
    /\ current_cloud_os_release.next_release = ""
    /\ Len(apps) >= 2

\* the applications of one variant that return a non-empty step, in the
\* iteration order of analysis_result.apps
MatchingSteps(sub) ==
    SelectSeq([i \in 1..Len(apps) |-> i],
              LAMBDA i : apps[i].subordinate = sub /\ apps[i].behaviour = "step")

\* the children of `group` are the steps returned by MatchingSteps(sub)
GroupIs(group, sub) ==
    group.sub_steps =
        [k \in 1..Len(MatchingSteps(sub)) |->
            generate_upgrade_plan(MatchingSteps(sub)[k], target).value]

\* C17: the children of a group that create_upgrade_group returned are
\* exactly the non-empty steps returned by the applications passing the
\* filter, one per application and in iteration order; applications that
\* return None or an empty step, that halt, or that fail the filter add no
\* child, and no child is duplicated or reordered.
C17_GroupChildren ==
    /\ planPc \in {"subordinate", "returned"} => GroupIs(plan.sub_steps[2], FALSE)
    /\ planPc = "returned" =>
           /\ GroupIs(returned.sub_steps[2], FALSE)
           /\ GroupIs(returned.sub_steps[3], TRUE)

C17_Witness ==
    /\ planPc = "returned"
    /\ \E i, j, k \in 1..Len(apps) :
           /\ i < j /\ j < k
           /\ apps[i].subordinate = apps[j].subordinate
           /\ apps[j].subordinate = apps[k].subordinate
           /\ apps[i].behaviour = "step"
           /\ apps[j].behaviour = "empty"
           /\ apps[k].behaviour = "step"
           /\ Len(returned.sub_steps[IF apps[i].subordinate THEN 3 ELSE 2].sub_steps) = 2

\* a node with neither an action nor children
NoOp(node) == node.function = "None" /\ Len(node.sub_steps) = 0

\* C19 as stated: in a returned tree every node other than the root has an
\* action or at least one child.
C19_NoNoOpAttached ==
    planPc = "returned" =>
        \A k \in 1..Len(returned.sub_steps) :
            /\ ~NoOp(returned.sub_steps[k])
            /\ \A j \in 1..Len(returned.sub_steps[k].sub_steps) :
                   ~NoOp(returned.sub_steps[k].sub_steps[j])

\* C19 amended: in a returned tree every node other than the root and the
\* two group nodes has an action or at least one child (an empty contribution
\* of an application is never attached); the two group nodes are attached
\* whatever they hold, and a group is childless exactly when no application
\* of its variant returned a non-empty step.
C19_NoNoOpBelowGroups ==
    planPc = "returned" =>
        /\ Len(returned.sub_steps) = 3
        /\ ~NoOp(returned.sub_steps[1])
        /\ \A k \in 2..3 :
               /\ \A j \in 1..Len(returned.sub_steps[k].sub_steps) :
                      /\ ~returned.sub_steps[k].sub_steps[j].none
                      /\ ~NoOp(returned.sub_steps[k].sub_steps[j])
               /\ NoOp(returned.sub_steps[k]) <=> MatchingSteps(k = 3) = <<>>

C19_Witness ==
    /\ planPc = "returned"
    /\ NoOp(returned.sub_steps[3])
    /\ ~NoOp(returned.sub_steps[2])
    /\ \E i \in 1..Len(apps) : apps[i].behaviour = "empty" /\ apps[i].subordinate

\* C22: generate_upgrade_plan is invoked one application at a time (each
\* step adds at most one invocation and changes none made before), always
\* with the target generate_plan resolved, never twice on one application,
\* and never on a principal application after one on a subordinate
\* application; a call that returned a plan has invoked every application of
\* the analysis exactly once.
C22_InvokedOnceInOrder ==
    /\ [](/\ \A k \in 1..Len(invoked) :
                 /\ invoked[k].app \in 1..Len(apps)
                 /\ invoked[k].target = target
                 /\ invoked[k].target = GetNextRelease(current_cloud_os_release)
                 /\ invoked[k].target \notin {"None", ""}
          /\ \A a, b \in 1..Len(invoked) :
                 a < b =>
                     /\ invoked[a].app # invoked[b].app
                     /\ apps[invoked[a].app].subordinate =>
                            apps[invoked[b].app].subordinate
          /\ planPc = "returned" =>
                 /\ Len(invoked) = Len(apps)
                 /\ \A i \in 1..Len(apps) :
                        Cardinality({k \in 1..Len(invoked) : invoked[k].app = i}) = 1)
    /\ [][/\ Len(invoked') \in {Len(invoked), Len(invoked) + 1}
          /\ SubSeq(invoked', 1, Len(invoked)) = invoked
          /\ target # "None" => target' = target]_vars

C22_Witness ==
    /\ planPc = "returned"
    /\ Len(apps) = 3
    /\ apps[1].subordinate
    /\ ~apps[2].subordinate
    /\ apps[3].subordinate
    /\ [k \in 1..Len(invoked) |-> invoked[k].app] = <<2, 1, 3>>
    /\ apps[2].behaviour = "halt"

\* ========================================================= claims: JujuWaiter
\* C5: when the last thing wait did is a wait_for_idle that raised one of the
\* four fatal errors, wait has ended with exactly that error; and a wait that
\* ended with a fatal error made no poll, no reconnect attempt and no deadline
\* check after the poll that raised it.
C5_FatalPollEndsWait ==
    /\ (lastOp = "poll" /\ lastPoll \in FatalErrors) =>
           (waitPc = "fatal" /\ waitError = lastPoll)
    /\ waitPc = "fatal" =>
           (lastOp = "poll" /\ lastPoll \in FatalErrors /\ waitError = lastPoll)

C5_Witness ==
    /\ waitPc = "fatal"
    /\ waitError = "JujuUnitError"
    /\ lastPoll = "JujuUnitError"
    /\ now - callStart <= timeout

\* C6: wait has raised TimeoutException only if the time elapsed since the
\* start of that call exceeds the timeout in effect for the call
\* (self.timeout), whichever of the two deadline checks raised it.
C6_TimeoutOnlyAfterDeadline ==
    (waitPc = "timed_out" \/ waitError = "TimeoutException") =>
        /\ now - callStart > timeout
        /\ waitPc = "timed_out"
        /\ waitError = "TimeoutException"
        /\ lastOp \in {"check_connect", "check_poll"}

C6_Witness ==
    /\ waitPc = "timed_out"
    /\ lastOp = "check_connect"
    /\ timeout = TickStep
    /\ calls = 2

\* C7: every wait call eventually ends stabilized, timed out or with a fatal
\* error, and against a fleet that is never idle (the connection dropping any
\* number of times) it ends with TimeoutException.
C7_WaitTerminates ==
    /\ (waitPc \in Running) ~> (waitPc \in Terminal)
    /\ (waitPc \in Running /\ fleet = "never_idle") ~> (waitPc = "timed_out")

C7_Witness ==
    /\ waitPc = "timed_out"
    /\ fleet = "never_idle"
    /\ lastOp = "check_connect"
    /\ lastPoll = "Exception"

\* C8: a wait call made with a zero or None timeout_seconds runs with the
\* default timeout of 3600 seconds, measured from the start of that call.
C8_FalsyTimeoutIsDefault ==
    (waitPc # "init" /\ timeout_seconds = 0) =>
        (timeout = DEFAULT_TIMEOUT /\ start_time = callStart)

\* C11: a wait_for_idle that raised an exception other than the four fatal
\* errors does not end the wait: the deadline is checked next and, when it is
\* not exceeded, wait goes back to ensuring the connection (and polls again);
\* a wait ends only stabilized after a successful poll, with a fatal error
\* after a poll that raised it, or with TimeoutException.
C11_NonFatalPollRetried ==
    /\ [](/\ (lastOp = "poll" /\ lastPoll \notin FatalErrors \cup {"idle"}) =>
                 (waitPc = "check_poll" /\ waitError = "None")
          /\ waitError \in {"None", "TimeoutException"} \cup FatalErrors
          /\ waitPc = "stabilized" => (lastOp = "poll" /\ lastPoll = "idle")
          /\ waitPc = "fatal" => (lastPoll \in FatalErrors /\ waitError = lastPoll)
          /\ waitPc = "timed_out" => waitError = "TimeoutException")
    /\ [][(waitPc = "check_poll" /\ waitPc' # waitPc) =>
              IF now - callStart > timeout
              THEN waitPc' = "timed_out"
              ELSE waitPc' = "ensure" /\ waitError' = "None"]_vars

C11_Witness ==
    /\ waitPc = "poll"
    /\ lastOp = "check_poll"
    /\ lastPoll = "Exception"
    /\ now - callStart <= timeout
    /\ now > callStart

\* C12: a fatal error raised by a step of wait, the reconnect attempt of the
\* ensure-connected loop included, has ended the wait with that error.
C12_FatalAlwaysEndsWait ==
    /\ (lastOp = "poll" /\ lastPoll \in FatalErrors) =>
           (waitPc = "fatal" /\ waitError = lastPoll)
    /\ (lastOp = "connect" /\ lastConnect \in FatalErrors) =>
           (waitPc = "fatal" /\ waitError = lastConnect)

\* C18: inside wait a poll is issued only right after the model was seen
\* connected; a model seen disconnected is disconnected, then the deadline is
\* checked before each reconnect attempt; a reconnect attempt is made only
\* after a check that found the deadline not exceeded and targets the model
\* name held since construction; a deadline exceeded at that check ends the
\* wait with TimeoutException and without a reconnect attempt.
C18_ReconnectDiscipline ==
    /\ [](lastOp = "connect" => connectTo = model_name)
    /\ [][/\ (waitPc' = "poll" /\ waitPc # "poll") =>
                 (waitPc = "ensure" /\ model = "open")
          /\ (waitPc = "ensure" /\ model # "open" /\ waitPc' # waitPc) =>
                 waitPc' = "disconnect"
          /\ (waitPc = "disconnect" /\ waitPc' # waitPc) =>
                 (waitPc' = "check_connect" /\ waitError' = waitError)
          /\ (waitPc' = "connect" /\ waitPc # "connect") =>
                 (waitPc = "check_connect" /\ now - callStart <= timeout)
          /\ (waitPc = "check_connect" /\ now - callStart > timeout
                 /\ waitPc' # waitPc) =>
                 /\ waitPc' = "timed_out"
                 /\ waitError' = "TimeoutException"
                 /\ lastConnect' = lastConnect
                 /\ connectTo' = connectTo
          /\ model_name' = model_name]_vars

C18_Witness ==
    /\ waitPc = "timed_out"
    /\ lastOp = "check_connect"
    /\ lastConnect = "Exception"
    /\ connectTo = model_name
    /\ model_name = "m2"

\* C21: wait checks the deadline only after a poll that failed with a
\* non-fatal exception and before each reconnect attempt: a wait that timed
\* out made one of these two checks last, the check after a poll follows a
\* non-fatal failure, and the reconnect loop runs only with the model
\* disconnected; a poll that finds the fleet idle ends the wait in
\* stabilized with no error, after the deadline too; a wait that timed out
\* before its first poll finished did so in the reconnect loop, with the
\* model not connected.
C21_DeadlineCheckSites ==
    /\ [](/\ waitPc = "timed_out" =>
                 (lastOp \in {"check_poll", "check_connect"}
                      /\ waitError = "TimeoutException")
          /\ lastOp = "check_poll" => lastPoll \notin FatalErrors \cup {"idle", "none"}
          /\ waitPc \in {"disconnect", "check_connect", "connect"} => model # "open"
          /\ (lastOp = "poll" /\ lastPoll = "idle") =>
                 (waitPc = "stabilized" /\ waitError = "None")
          /\ (waitPc = "timed_out" /\ lastPoll = "none") =>
                 (lastOp = "check_connect" /\ model # "open"))
    /\ [][/\ (waitPc = "ensure" /\ model = "open" /\ waitPc' # waitPc) =>
                 (waitPc' = "poll" /\ waitError' = waitError)
          /\ (waitPc = "poll" /\ lastPoll' = "idle" /\ waitPc' # waitPc) =>
                 (waitPc' = "stabilized" /\ waitError' = "None")
          /\ (waitPc' = "connect" /\ waitPc # "connect") =>
                 (waitPc = "check_connect" /\ lastOp' = "check_connect")
          /\ (waitPc' = "timed_out" /\ waitPc # "timed_out") =>
                 waitPc \in {"check_poll", "check_connect"}]_vars

C21_Witness ==
    /\ waitPc = "stabilized"
    /\ lastOp = "poll"
    /\ lastPoll = "idle"
    /\ pollLate
    /\ now - start_time > timeout
    /\ lastConnect = "none"
    /\ waitError = "None"

\* ================================================= claims: _async_get_model
\* C9: with one flow of control, a call of _async_get_model that returns
\* never returns None, and when the call found the cached handle disconnected
\* the cache no longer holds that handle and the call returns a new connected
\* handle.
C9_NeverNoneNeverStale ==
    \A p \in flows :
        (Cardinality(flows) = 1 /\ getPc[p] = "idle" /\ getReturned[p]) =>
            /\ getValue[p] # 0
            /\ getFound[p] # 0 =>
                   (CURRENT_MODEL # getFound[p] /\ getValue[p] = CURRENT_MODEL)

C20_NonAtomicReplace ==
    /\ []((\A p \in Flows : getPc[p] = "connect") =>
              /\ CURRENT_MODEL = 0
              /\ getModel["f1"] # getModel["f2"]
              /\ \A p \in Flows : handles[getModel[p]] = "none")
    /\ []((drops = 0 /\ opened > 1) => Cardinality(flows) = 2)
    /\ [][\A p \in Flows :
              (getPc[p] = "connect" /\ getPc'[p] = "idle" /\ getReturned'[p]) =>
                  /\ CURRENT_MODEL' = getModel[p]
                  /\ getValue'[p] = getModel[p]
                  /\ handles'[getModel[p]] = "open"
                  /\ opened' = opened + 1
                  /\ disconnects' = disconnects
                  /\ CURRENT_MODEL # 0 =>
                         /\ CURRENT_MODEL' # CURRENT_MODEL
                         /\ handles'[CURRENT_MODEL] = handles[CURRENT_MODEL]]_vars

C20_Witness ==
    /\ drops = 0
    /\ disconnects = 0
    /\ opened = 2
    /\ \A p \in Flows : getPc[p] = "idle" /\ getReturned[p]
    /\ getValue["f1"] # getValue["f2"]
    /\ handles[getValue["f1"]] = "open"
    /\ handles[getValue["f2"]] = "open"
    /\ CURRENT_MODEL = getValue["f2"]
    /\ getCalls = 2

\* ============================== claims: _normalise_action_results
\* C13: for every raw result, the empty dict and None included, the record
\* _normalise_action_results returns holds the four keys stderr, stdout,
\* Stderr and Stdout, and the two keys of a stream of which the raw result
\* supplied neither are the empty string.
C13_FourKeysAlways ==
    normPc # "start" =>
        /\ \A k \in {"Stderr", "Stdout", "stderr", "stdout"} : k \in DOMAIN normOut
        /\ \A k \in {"stderr", "stdout"} :
               ({k, Capitalize(k)} \cap DOMAIN results.d = {}) =>
                   (normOut[k] = "" /\ normOut[Capitalize(k)] = "")

\* C14: for every non-empty raw result, in the record returned Stdout equals
\* stdout and Stderr equals stderr, every key other than these four keeps
\* its value, and a second normalisation returns the same record.
C14_CasingsAgree ==
    (normPc # "start" /\ ResultsTruthy(results)) =>
        /\ normOut["Stdout"] = normOut["stdout"]
        /\ normOut["Stderr"] = normOut["stderr"]
        /\ \A k \in DOMAIN results.d \ {"Stderr", "Stdout", "stderr", "stdout"} :
               k \in DOMAIN normOut /\ normOut[k] = results.d[k]
        /\ DOMAIN normOut = DOMAIN results.d \cup {"Stderr", "Stdout", "stderr", "stdout"}
        /\ normPc = "twice" => normAgain = normOut

\* ========================================= claims: gateway operations
\* `app` is the part of `name` before its first "/"
IsPrefixBeforeSlash(app, name) ==
    /\ Len(app) <= Len(name)
    /\ \A k \in 1..Len(app) : app[k] = name[k] /\ app[k] # "/"
    /\ Len(app) < Len(name) => name[Len(app) + 1] = "/"

\* the requested unit exists in the model
UnitExists ==
    \E n \in DOMAIN applications :
        /\ IsPrefixBeforeSlash(n, unit_name)
        /\ \E k \in 1..Len(applications[n]) : applications[n][k] = unit_name

\* C15: async_run_action returns or raises ActionFailed only after the wait
\* for the action's terminal state; it raises ActionFailed exactly when
\* raise_on_failure is true and the terminal status is not "completed", and
\* the exception carries the output fetched, or None when the output is
\* missing; with raise_on_failure false it returns the action whatever the
\* status and never fetches the output.
C15_ActionFailedIff ==
    /\ actError = "ActionFailed" =>
           /\ gwOp = "run_action"
           /\ actPc = "raised"
           /\ waited
           /\ raise_on_failure
           /\ action_status \in ActionStatuses \ {"completed"}
           /\ outputFetches = 1
           /\ failedOutput = IF lastOutput = "KeyError" THEN "None" ELSE "output"
           /\ actReturned = "None"
    /\ (gwOp = "run_action" /\ actPc = "returned") =>
           /\ waited
           /\ action_status \in ActionStatuses
           /\ ~raise_on_failure \/ action_status = "completed"
           /\ actReturned = "action_obj"
           /\ actError = "None"
           /\ outputFetches = 0
    /\ (waited /\ raise_on_failure /\ action_status # "completed") =>
           actPc \in {"output", "raised"}
    /\ (waited /\ ~(raise_on_failure /\ action_status # "completed")) =>
           actPc = "returned"
    /\ ~raise_on_failure => (outputFetches = 0 /\ actError # "ActionFailed")
    /\ outputFetches > 0 => waited

C15_Witness ==
    /\ actError = "ActionFailed"
    /\ action_status = "cancelled"
    /\ lastOutput = "KeyError"
    /\ failedOutput = "None"

\* C16: once the unit is resolved, the application looked up is the part of
\* the unit name before its first "/"; the resolution fails with
\* UnitNotFound exactly when that application is not in the model or none of
\* its units has the requested entity_id, and then the gateway function has
\* made no remote call; otherwise the unit found is the first unit of that
\* application whose entity_id is the requested name, and the one remote
\* call the function makes is on that unit.
C16_UnitResolution ==
    actPc # "start" =>
        /\ IsPrefixBeforeSlash(unitApp, unit_name)
        /\ actError = "UnitNotFound" <=> ~UnitExists
        /\ actError = "UnitNotFound" =>
               /\ actPc = "raised"
               /\ remoteCalls = <<>>
               /\ unitFound.index = 0
               /\ actReturned = "None"
        /\ actError # "UnitNotFound" =>
               /\ unitFound.app = unitApp
               /\ unitFound.index \in 1..Len(applications[unitApp])
               /\ applications[unitApp][unitFound.index] = unit_name
               /\ \A k \in 1..unitFound.index - 1 :
                      applications[unitApp][k] # unit_name
               /\ Len(remoteCalls) <= 1
               /\ \A k \in 1..Len(remoteCalls) :
                      remoteCalls[k] = [unit |-> unitFound, call |-> gwOp]
               /\ actPc \in {"returned", "wait", "output"} => Len(remoteCalls) = 1

C16_Witness ==
    /\ actPc = "raised"
    /\ actError = "UnitNotFound"
    /\ gwOp = "scp_from_unit"
    /\ unitApp \in DOMAIN applications
    /\ Len(applications[unitApp]) = 2
    /\ Len(unit_name) = 3
    /\ unit_name[2] = "/"

====
